---- MODULE Spec2Model ----
(***************************************************************************)
(* Ingestion pipeline of the enterprise RAG platform                       *)
(* (backend/app/api/routes.py, backend/app/services/ingestion.py).         *)
(*                                                                         *)
(* The database holds the committed Document and Chunk rows.  A handler     *)
(* receives its Session from Depends(get_db), one per request, and the     *)
(* background task it schedules keeps using that Session: the Document     *)
(* object a task works on is the session's copy of the row as the handler  *)
(* loaded or created it.  Assignments change that copy only; the row       *)
(* changes when the copy is flushed by the "with self.db.begin()"          *)
(* transaction of process_document or of mark_failed, which writes status  *)
(* and the whole metadata map.                                             *)
(***************************************************************************)
EXTENDS Integers, Sequences, FiniteSets, TLC

\* ------------------------------------------------------------------ bounds
\* Ingest requests that schedule a background task, over the whole run.
MaxTasks == 2
\* Background tasks that may be running at the same time.
MaxInFlight == 2

\* --------------------------------------------------------------- constants
\* _chunk_content(content, max_words=220, overlap=40)
max_words == 220
overlap == 40

Null == "null"
\* metadata without an "ingestion_attempts" entry
NoAttempts == 0 - 1

Tenants == {"t1", "t2"}
\* tenants whose tokens the ingest requests carry
Callers == {"t1"}
\* knowledge base id -> owning tenant (rows of knowledge_bases)
KbTenant == [k \in {"k1", "k2"} |-> IF k = "k1" THEN "t1" ELSE "t2"]
KbIds == DOMAIN KbTenant
Keys == {"a"}

\* Uploaded files: the filename and the number of whitespace-separated words
\* of the decoded bytes.
Files ==
  { [filename |-> "long.txt", words |-> 300],
    [filename |-> "blank.txt", words |-> 0],
    [filename |-> "notes.xyz", words |-> 12] }

\* URLs of POST /ingest_url: the address, whether requests.get answers it
\* and the number of words of the body it returns.
Urls ==
  { [filename |-> "http://up/page.txt", words |-> 300, reachable |-> TRUE],
    [filename |-> "http://down/page.txt", words |-> 0, reachable |-> FALSE] }

\* filename.startswith("http")
IsUrl(filename) == filename \in {"http://up/page.txt", "http://down/page.txt"}

Suffix(filename) ==
  IF filename \in {"long.txt", "blank.txt", "http://up/page.txt",
                   "http://down/page.txt"}
  THEN ".txt" ELSE ".xyz"

ErrUnsupported == "Unsupported file type"
ErrNoText == "No text found in document"
ErrEmbedding == "Embedding dimension mismatch"
ErrFetch == "Failed to fetch URL"
\* an error of the database while the transaction of process_document runs
ErrStorage == "IntegrityError"

Min(a, b) == IF a < b THEN a ELSE b

\* ------------------------------------------------------------------- state
VARIABLES
  docs,      \* documents table: sequence of rows, index = id in creation order
  chunks,    \* chunks table: set of rows
  tasks,     \* background tasks in scheduling order, each with its session's
             \* Document object and its position in process_uploaded_file
  response,  \* what the last ingest request returned
  kbs        \* knowledge_bases table: id -> tenant_id of the row

vars == <<docs, chunks, tasks, response, kbs>>

DocIds == 1..Len(docs)
TaskIds == 1..Len(tasks)

InFlight(i) == tasks[i].pc # "done"
Running == {i \in TaskIds : InFlight(i)}

\* ---------------------------------------------------------- pure functions
\* IngestionPipeline._merge_metadata: copy the map, apply the updates, assign.
_merge_metadata(document, updates) ==
  [document EXCEPT !.doc_metadata =
     [k \in DOMAIN document.doc_metadata |->
        IF k \in DOMAIN updates THEN updates[k] ELSE document.doc_metadata[k]]]

\* IngestionPipeline._increment_attempt on a session's Document object.
_increment_attempt(document) ==
  LET attempts == IF document.doc_metadata.ingestion_attempts # NoAttempts
                  THEN document.doc_metadata.ingestion_attempts
                  ELSE 0
      merged == _merge_metadata(document, [ingestion_attempts |-> attempts + 1])
  IN [merged EXCEPT !.status = "PROCESSING"]

\* IngestionPipeline._extract_text: a URL is fetched first (a ValueError when
\* the request fails); then the text (its word count) of a .txt body, a
\* ValueError for an unsupported suffix.
_extract_text(file) ==
  IF IsUrl(file.filename) /\ ~file.reachable
  THEN [ok |-> FALSE, words |-> 0, error |-> ErrFetch]
  ELSE IF Suffix(file.filename) = ".txt"
  THEN [ok |-> TRUE, words |-> file.words, error |-> Null]
  ELSE [ok |-> FALSE, words |-> 0, error |-> ErrUnsupported]

\* The while loop of _chunk_content for a flat string of W words; a chunk is
\* the slice words[start:end], written <<start, end>>.
RECURSIVE ChunkLoop(_, _, _, _, _)
ChunkLoop(W, start, mw, ov, acc) ==
  IF start >= W THEN acc
  ELSE LET end == Min(start + mw, W)
           step == IF mw > ov THEN mw - ov ELSE mw
           acc2 == Append(acc, <<start, end>>)
       IN IF end - start < ov /\ start > 0
          THEN acc2
          ELSE ChunkLoop(W, start + step, mw, ov, acc2)

_chunk_content(W, mw, ov) == IF W = 0 THEN <<>> ELSE ChunkLoop(W, 0, mw, ov, <<>>)

\* The lookup by the idempotency key alone.
Existing_by_key(tenant, kb, key) ==
  LET hits == {d \in DocIds : docs[d].doc_metadata.idempotency_key = key}
  IN IF hits = {} THEN 0 ELSE CHOOSE d \in hits : \A e \in hits : e <= d

\* ingest_document, lines 144-153: the newest Document of the tenant and
\* knowledge base whose metadata carries the idempotency key (0: none).
Existing(tenant, kb, key) ==
  LET hits == {d \in DocIds : /\ docs[d].tenant_id = tenant
                              /\ docs[d].kb_id = kb
                              /\ docs[d].doc_metadata.idempotency_key = key}
  IN IF hits = {} THEN 0 ELSE CHOOSE d \in hits : \A e \in hits : e <= d

\* ----------------------------------------------------------------- actions
Init ==
  /\ kbs = KbTenant
  /\ docs = <<>>
  /\ chunks = {}
  /\ tasks = <<>>
  /\ response = [status_code |-> 0, document |-> 0, status |-> Null]

\* A handler that extracts the text itself before it answers.
add_task_extracted(d, document, file) ==
  Append(tasks,
    [document |-> d, obj |-> document, file |-> file, pc |-> "chunk",
     words |-> file.words, chunks |-> <<>>, reason |-> Null,
     after |-> {i \in TaskIds : tasks[i].document = d /\ ~InFlight(i)}])

\* background_tasks.add_task(ingestion.process_uploaded_file, document, file_bytes)
\* background_tasks.add_task(ingestion.process_url, document)
\* after: the tasks of the same Document that had ended when the request came
\* (only recorded).
add_task(d, document, file) ==
  Append(tasks,
    [document |-> d, obj |-> document, file |-> file, pc |-> "extract",
     words |-> 0, chunks |-> <<>>, reason |-> Null,
     after |-> {i \in TaskIds : tasks[i].document = d /\ ~InFlight(i)}])

\* Document(tenant_id, kb_id, filename, status="PROCESSING", doc_metadata=merged_meta)
NewDocument(tenant, kb, file, key) ==
  [tenant_id |-> tenant, kb_id |-> kb, filename |-> file.filename,
   status |-> "PROCESSING",
   doc_metadata |-> [idempotency_key |-> key, ingestion_attempts |-> 0,
                     last_error |-> Null]]

\* The place in docs of a row that ON DELETE CASCADE has removed with its
\* knowledge base (ids are never used again).
NoDocument ==
  [tenant_id |-> Null, kb_id |-> Null, filename |-> Null, status |-> Null,
   doc_metadata |-> [idempotency_key |-> Null, ingestion_attempts |-> NoAttempts,
                     last_error |-> Null]]

\* ingest_document, line 154: if existing and existing.status == "READY"
existing_never_ready(existing) == FALSE

existing_is_ready(existing) ==
  existing # 0 /\ docs[existing].status = "READY"

\* POST /ingest.  metadata is the idempotency_key entry of the caller's
\* metadata JSON object (Null: no such entry).
ingest_document(tenant, kb_id, idempotency_key, metadata, file) ==
  IF kb_id \notin DOMAIN kbs \/ kbs[kb_id] # tenant
  THEN \* 404 Knowledge base not found for tenant
       /\ response' = [status_code |-> 404, document |-> 0, status |-> Null]
       /\ UNCHANGED <<docs, chunks, tasks, kbs>>
  ELSE
    LET existing == IF idempotency_key # Null
                    THEN Existing(tenant, kb_id, idempotency_key) ELSE 0
    IN IF existing_is_ready(existing)
       THEN \* return existing
            /\ response' = [status_code |-> 200, document |-> existing,
                            status |-> docs[existing].status]
            /\ UNCHANGED <<docs, chunks, tasks, kbs>>
       ELSE
         /\ IF existing # 0
            THEN \* reuse the row: the assignments stay in the session
                 LET document ==
                       [docs[existing] EXCEPT
                          !.filename = file.filename,
                          !.status = "PROCESSING",
                          !.doc_metadata.idempotency_key = idempotency_key]
                 IN /\ tasks' = add_task(existing, document, file)
                    /\ response' = [status_code |-> 200, document |-> existing,
                                    status |-> document.status]
                    /\ UNCHANGED docs
            ELSE \* db.add(document); db.commit(); db.refresh(document)
                 LET document ==
                       NewDocument(tenant, kb_id, file,
                         IF idempotency_key # Null THEN idempotency_key
                         ELSE metadata)
                     d == Len(docs) + 1
                 IN /\ docs' = Append(docs, document)
                    /\ tasks' = add_task(d, document, file)
                    /\ response' = [status_code |-> 200, document |-> d,
                                    status |-> document.status]
         /\ UNCHANGED <<chunks, kbs>>

\* Document(tenant_id, kb_id, filename=payload.url, status="PROCESSING",
\*          doc_metadata=payload.metadata)
NewUrlDocument(tenant, kb, url, key) ==
  [tenant_id |-> tenant, kb_id |-> kb, filename |-> url.filename,
   status |-> "PROCESSING",
   doc_metadata |-> [idempotency_key |-> key, ingestion_attempts |-> NoAttempts,
                     last_error |-> Null]]

\* POST /ingest_url.  metadata is the idempotency_key entry of the payload's
\* metadata object (Null: no such entry).
ingest_url(tenant, kb_id, metadata, url) ==
  IF kb_id \notin DOMAIN kbs \/ kbs[kb_id] # tenant
  THEN \* 404 Knowledge base not found for tenant
       /\ response' = [status_code |-> 404, document |-> 0, status |-> Null]
       /\ UNCHANGED <<docs, chunks, tasks, kbs>>
  ELSE \* db.add(document); db.commit(); db.refresh(document)
       LET document == NewUrlDocument(tenant, kb_id, url, metadata)
           d == Len(docs) + 1
       IN /\ docs' = Append(docs, document)
          /\ tasks' = add_task(d, document, url)
          /\ response' = [status_code |-> 200, document |-> d,
                          status |-> document.status]
          /\ UNCHANGED <<chunks, kbs>>

\* Extraction whose exception leaves the task without reaching the handler.
process_uploaded_file_extract_uncaught(i) ==
  /\ tasks[i].pc = "extract"
  /\ LET r == _extract_text(tasks[i].file)
     IN tasks' = [tasks EXCEPT ![i] =
          IF r.ok THEN [@ EXCEPT !.pc = "chunk", !.words = r.words]
          ELSE [@ EXCEPT !.pc = "done", !.reason = r.error]]
  /\ UNCHANGED <<docs, chunks, response, kbs>>

\* process_uploaded_file, line 26, and process_url, line 41:
\* extracted_content = self._extract_text(...)
process_uploaded_file_extract(i) ==
  /\ tasks[i].pc = "extract"
  /\ LET r == _extract_text(tasks[i].file)
     IN tasks' = [tasks EXCEPT ![i] =
          IF r.ok THEN [@ EXCEPT !.pc = "chunk", !.words = r.words]
          ELSE [@ EXCEPT !.pc = "mark_failed", !.reason = r.error]]
  /\ UNCHANGED <<docs, chunks, response, kbs>>

\* Chunking without the "if not chunks: raise" of line 28.
process_uploaded_file_chunk_unchecked(i) ==
  /\ tasks[i].pc = "chunk"
  /\ tasks' = [tasks EXCEPT ![i] =
       [@ EXCEPT !.pc = "increment",
                 !.chunks = _chunk_content(tasks[i].words, max_words, overlap)]]
  /\ UNCHANGED <<docs, chunks, response, kbs>>

\* process_uploaded_file, lines 27-29: chunk, "No text found" when empty
process_uploaded_file_chunk(i) ==
  /\ tasks[i].pc = "chunk"
  /\ LET cs == _chunk_content(tasks[i].words, max_words, overlap)
     IN tasks' = [tasks EXCEPT ![i] =
          IF cs = <<>> THEN [@ EXCEPT !.pc = "mark_failed", !.reason = ErrNoText]
          ELSE [@ EXCEPT !.pc = "increment", !.chunks = cs]]
  /\ UNCHANGED <<docs, chunks, response, kbs>>

\* process_uploaded_file, line 30: self._increment_attempt(document)
process_uploaded_file_increment(i) ==
  /\ tasks[i].pc = "increment"
  /\ tasks' = [tasks EXCEPT ![i] =
       [@ EXCEPT !.pc = "embed", !.obj = _increment_attempt(tasks[i].obj)]]
  /\ UNCHANGED <<docs, chunks, response, kbs>>

\* process_document, line 55: embeddings = self.embedder.embed_texts(chunks);
\* the model load or the encode call may raise.
process_document_embed(i) ==
  /\ tasks[i].pc = "embed"
  /\ \E ok \in BOOLEAN :
       tasks' = [tasks EXCEPT ![i] =
         IF ok THEN [@ EXCEPT !.pc = "store"]
         ELSE [@ EXCEPT !.pc = "mark_failed", !.reason = ErrEmbedding]]
  /\ UNCHANGED <<docs, chunks, response, kbs>>

\* The Chunk rows process_document builds, one per chunk string.
chunk_records(i) ==
  { [id |-> <<i, n>>,
     tenant_id |-> tasks[i].obj.tenant_id,
     kb_id |-> tasks[i].obj.kb_id,
     document_id |-> tasks[i].document,
     content |-> <<tasks[i].file.filename, tasks[i].chunks[n]>>,
     embedding |-> "vector"] : n \in 1..Len(tasks[i].chunks) }

\* process_document without the delete of line 58.
process_document_store_keeping(i) ==
  /\ tasks[i].pc = "store"
  /\ LET d == tasks[i].document
         document == _merge_metadata([tasks[i].obj EXCEPT !.status = "READY"],
                                     [last_error |-> Null])
     IN /\ chunks' = chunks \cup chunk_records(i)
        /\ docs' = [docs EXCEPT ![d] = document]
        /\ tasks' = [tasks EXCEPT ![i] = [@ EXCEPT !.pc = "done", !.obj = document]]
  /\ UNCHANGED <<response, kbs>>

\* process_document whose delete and READY are committed before the insert.
process_document_store_uninserted(i) ==
  /\ tasks[i].pc = "store"
  /\ LET d == tasks[i].document
         kept == {c \in chunks : ~(c.document_id = d
                                   /\ c.tenant_id = tasks[i].obj.tenant_id)}
         document == _merge_metadata([tasks[i].obj EXCEPT !.status = "READY"],
                                     [last_error |-> Null])
     IN /\ chunks' = kept
        /\ docs' = [docs EXCEPT ![d] = document]
        /\ tasks' = [tasks EXCEPT ![i] = [@ EXCEPT !.pc = "done", !.obj = document]]
  /\ UNCHANGED <<response, kbs>>

\* process_document that sets READY and leaves last_error as it is.
process_document_store_unclearing(i) ==
  /\ tasks[i].pc = "store"
  /\ LET d == tasks[i].document
         kept == {c \in chunks : ~(c.document_id = d
                                   /\ c.tenant_id = tasks[i].obj.tenant_id)}
         document == [tasks[i].obj EXCEPT !.status = "READY"]
     IN /\ chunks' = kept \cup chunk_records(i)
        /\ docs' = [docs EXCEPT ![d] = document]
        /\ tasks' = [tasks EXCEPT ![i] = [@ EXCEPT !.pc = "done", !.obj = document]]
  /\ UNCHANGED <<response, kbs>>

\* process_document, lines 56-73: one transaction deletes the Document's
\* chunks, inserts the new ones, sets READY and clears last_error; when a
\* statement or the commit raises, the transaction is rolled back, which
\* leaves the rows as they are and expires the session's Document.  For a
\* Document whose row is gone the UPDATE matches no row and the INSERT has no
\* row to refer to (chunks.document_id REFERENCES documents): it raises.
process_document_store(i) ==
  /\ tasks[i].pc = "store"
  /\ LET d == tasks[i].document
         kept == {c \in chunks : ~(c.document_id = d
                                   /\ c.tenant_id = tasks[i].obj.tenant_id)}
         document == _merge_metadata([tasks[i].obj EXCEPT !.status = "READY"],
                                     [last_error |-> Null])
     IN \E ok \in BOOLEAN :
          IF ok /\ docs[d] # NoDocument
          THEN /\ chunks' = kept \cup chunk_records(i)
               /\ docs' = [docs EXCEPT ![d] = document]
               /\ tasks' = [tasks EXCEPT ![i] =
                              [@ EXCEPT !.pc = "done", !.obj = document]]
          ELSE /\ tasks' = [tasks EXCEPT ![i] =
                              [@ EXCEPT !.pc = "mark_failed", !.reason = ErrStorage]]
               /\ UNCHANGED <<docs, chunks>>
  /\ UNCHANGED <<response, kbs>>

\* mark_failed, line 76: doc = self.db.get(Document, document_id) returns the
\* session's Document, loaded again from the row when a rollback expired it.
session_document(i) ==
  IF tasks[i].reason = ErrStorage THEN docs[tasks[i].document] ELSE tasks[i].obj

\* mark_failed that also drops the Document's chunks.
mark_failed_clearing(i) ==
  /\ tasks[i].pc = "mark_failed"
  /\ LET d == tasks[i].document
         doc == _merge_metadata([session_document(i) EXCEPT !.status = "FAILED"],
                                [last_error |-> tasks[i].reason])
     IN /\ docs' = [docs EXCEPT ![d] = doc]
        /\ chunks' = {c \in chunks : c.document_id # d}
        /\ tasks' = [tasks EXCEPT ![i] = [@ EXCEPT !.pc = "done", !.obj = doc]]
  /\ UNCHANGED <<response, kbs>>

\* mark_failed that returns without writing.
mark_failed_returning(i) ==
  /\ tasks[i].pc = "mark_failed"
  /\ tasks' = [tasks EXCEPT ![i] = [@ EXCEPT !.pc = "done"]]
  /\ UNCHANGED <<docs, chunks, response, kbs>>

\* mark_failed(document.id, str(e)).  When the row is gone, db.get finds no
\* Document and mark_failed returns (or, the session's object not being
\* expired, the UPDATE matches no row and raises): nothing is written.
mark_failed(i) ==
  /\ tasks[i].pc = "mark_failed"
  /\ LET d == tasks[i].document
         doc == _merge_metadata([session_document(i) EXCEPT !.status = "FAILED"],
                                [last_error |-> tasks[i].reason])
     IN IF docs[d] = NoDocument
        THEN /\ tasks' = [tasks EXCEPT ![i] = [@ EXCEPT !.pc = "done"]]
             /\ UNCHANGED docs
        ELSE /\ docs' = [docs EXCEPT ![d] = doc]
             /\ tasks' = [tasks EXCEPT ![i] = [@ EXCEPT !.pc = "done", !.obj = doc]]
  /\ UNCHANGED <<chunks, response, kbs>>

Next ==
  \/ \E tenant \in Callers, kb_id \in KbIds, key \in Keys \cup {Null},
        metadata \in Keys \cup {Null}, file \in Files :
       /\ ingest_document(tenant, kb_id, key, metadata, file)
       /\ tasks' # tasks => /\ Len(tasks) < MaxTasks
                            /\ Cardinality(Running) < MaxInFlight
  \/ \E i \in TaskIds : process_uploaded_file_extract(i)
  \/ \E i \in TaskIds : process_uploaded_file_chunk(i)
  \/ \E i \in TaskIds : process_uploaded_file_increment(i)
  \/ \E i \in TaskIds : process_document_embed(i)
  \/ \E i \in TaskIds : process_document_store(i)
  \/ \E i \in TaskIds : mark_failed(i)

Spec == Init /\ [][Next]_vars

\* Uploads and URL ingestions together.
UrlNext ==
  \/ Next
  \/ \E tenant \in Callers, kb_id \in KbIds, metadata \in {Null},
        url \in Urls :
       /\ ingest_url(tenant, kb_id, metadata, url)
       /\ tasks' # tasks => /\ Len(tasks) < MaxTasks
                            /\ Cardinality(Running) < MaxInFlight

UrlSpec == Init /\ [][UrlNext]_vars

\* ------------------------------------------------- tenants, knowledge bases
\* Ingestion by both tenants into three knowledge bases, two of them of one
\* tenant, while knowledge bases are deleted.
ThreeKbs == [kb \in {"k1", "k2", "k4"} |-> IF kb = "k2" THEN "t2" ELSE "t1"]

\* a file that can be ingested
TenancyFiles == {file \in Files : file.filename = "long.txt"}

TenancyInit ==
  /\ kbs = ThreeKbs
  /\ docs = <<>>
  /\ chunks = {}
  /\ tasks = <<>>
  /\ response = [status_code |-> 0, document |-> 0, status |-> Null]

\* DELETE /kb/{kb_id} that removes the knowledge_bases row alone.
delete_kb_uncascaded(tenant, kb_id) ==
  /\ kb_id \in DOMAIN kbs /\ kbs[kb_id] = tenant
  /\ kbs' = [kb \in DOMAIN kbs \ {kb_id} |-> kbs[kb]]
  /\ response' = [status_code |-> 204, document |-> 0, status |-> Null]
  /\ UNCHANGED <<docs, chunks, tasks>>

\* DELETE /kb/{kb_id}: 404 unless the knowledge base is the tenant's;
\* db.delete(kb); db.commit() removes the row, and with it (relationships
\* with cascade="all, delete", foreign keys with ondelete="CASCADE") its
\* Documents and their Chunks.
delete_kb(tenant, kb_id) ==
  IF kb_id \notin DOMAIN kbs \/ kbs[kb_id] # tenant
  THEN /\ response' = [status_code |-> 404, document |-> 0, status |-> Null]
       /\ UNCHANGED <<docs, chunks, tasks, kbs>>
  ELSE /\ kbs' = [kb \in DOMAIN kbs \ {kb_id} |-> kbs[kb]]
       /\ docs' = [d \in DocIds |->
                     IF docs[d].kb_id = kb_id THEN NoDocument ELSE docs[d]]
       /\ chunks' = {c \in chunks : /\ c.kb_id # kb_id
                                     /\ docs[c.document_id].kb_id # kb_id}
       /\ response' = [status_code |-> 204, document |-> 0, status |-> Null]
       /\ UNCHANGED tasks

TenancyNext ==
  \/ \E tenant \in Tenants, kb_id \in DOMAIN ThreeKbs, key \in Keys,
        file \in TenancyFiles :
       /\ ingest_document(tenant, kb_id, key, Null, file)
       /\ tasks' # tasks => /\ Len(tasks) < MaxTasks
                            /\ Cardinality(Running) < MaxInFlight
  \/ \E i \in TaskIds : process_uploaded_file_extract(i)
  \/ \E i \in TaskIds : process_uploaded_file_chunk(i)
  \/ \E i \in TaskIds : process_uploaded_file_increment(i)
  \/ \E i \in TaskIds : process_document_embed(i)
  \/ \E i \in TaskIds : process_document_store(i)
  \/ \E i \in TaskIds : mark_failed(i)
  \/ \E tenant \in Tenants, kb_id \in DOMAIN ThreeKbs : delete_kb(tenant, kb_id)

TenancySpec == TenancyInit /\ [][TenancyNext]_vars

\* The steps of background task i.  Starlette runs the tasks of a request
\* after its response, each to its end: a task that can take a step takes it.
process_uploaded_file(i) ==
  /\ i \in TaskIds
  /\ \/ process_uploaded_file_extract(i)
     \/ process_uploaded_file_chunk(i)
     \/ process_uploaded_file_increment(i)
     \/ process_document_embed(i)
     \/ process_document_store(i)
     \/ mark_failed(i)

\* One tenant ingesting files and URLs into its knowledge base, which may be
\* deleted, with every background task running on.
LifecycleNext ==
  \/ \E kb_id \in KbIds, file \in TenancyFiles :
       /\ ingest_document("t1", kb_id, "a", Null, file)
       /\ tasks' # tasks => /\ Len(tasks) < MaxTasks
                            /\ Cardinality(Running) < MaxInFlight
  \/ \E kb_id \in KbIds, url \in Urls :
       /\ ingest_url("t1", kb_id, Null, url)
       /\ tasks' # tasks => /\ Len(tasks) < MaxTasks
                            /\ Cardinality(Running) < MaxInFlight
  \/ \E i \in TaskIds : process_uploaded_file(i)
  \/ \E kb_id \in KbIds : delete_kb("t1", kb_id)

LifecycleSpec ==
  /\ Init /\ [][LifecycleNext]_vars
  /\ \A i \in 1..MaxTasks : WF_vars(process_uploaded_file(i))

\* ------------------------------------------------------------------ search
\* (backend/app/services/rag.py, backend/app/services/rerank.py, POST
\* /rag/query of backend/app/api/routes.py).  The chunks table is read for one
\* fixed query text: a Chunk row carries, next to its owner, the cosine
\* distance of its embedding to the query embedding and its ts_rank_cd score
\* against the query (0: content_tsv does not match it).

\* Chunk rows of the stores the queries run on (bound).
MaxChunks == 3

\* RRF constant, rag.py line 55
k == 60

Distances == {1, 2}
Scores == {0, 1, 2}
TopKs == {1, 2, 62}
SearchTypes == {"vector", "full_text", "hybrid"}

ChunkRow(id, kb, distance, score) ==
  [id |-> id, tenant_id |-> KbTenant[kb], kb_id |-> kb,
   distance |-> distance, score |-> score]

\* every store of at most max rows
StoresUpTo(max) ==
  UNION { { {ChunkRow(id, f[id][1], f[id][2], f[id][3]) : id \in 1..n} :
            f \in [1..n -> KbIds \X Distances \X Scores] } : n \in 0..max }

SmallStores == StoresUpTo(MaxChunks)

\* vector order A, B, C and full-text order C, A, B (A = 1, B = 2, C = 3)
ExampleStore ==
  { ChunkRow(1, "k1", 1, 2), ChunkRow(2, "k1", 2, 1), ChunkRow(3, "k1", 3, 3) }

\* a knowledge base of 63 chunks: chunk 63 is first in the full-text order
\* and beyond the 62 nearest vectors, chunk 62 is 62nd in both orders
BigStore ==
  { ChunkRow(id, "k1", id, IF id = 61 THEN 0 ELSE 100 - id) : id \in 1..61 }
    \cup { ChunkRow(62, "k1", 62, 1), ChunkRow(63, "k1", 63, 100) }

\* The rows without the owner filter.
Unscoped(tenant_id, kb_id) == chunks

\* .filter(Chunk.tenant_id == tenant_id, Chunk.kb_id == kb_id)
Scoped(tenant_id, kb_id) ==
  {c \in chunks : c.tenant_id = tenant_id /\ c.kb_id = kb_id}

\* func.rank().over(order_by=...): one more than the number of rows before
vector_rank(rows, c) == 1 + Cardinality({d \in rows : d.distance < c.distance})
fulltext_rank(rows, c) == 1 + Cardinality({d \in rows : d.score > c.score})

\* Rows <<id, rank>> as the window sort leaves them: by rank, rows of equal
\* rank in the order of the table (of the ids).
RECURSIVE InOrder(_)
InOrder(pairs) ==
  IF pairs = {} THEN <<>>
  ELSE LET first == CHOOSE p \in pairs : \A q \in pairs :
                      p[2] < q[2] \/ (p[2] = q[2] /\ p[1] <= q[1])
       IN <<first>> \o InOrder(pairs \ {first})

\* .limit(n)
Limit(rows, n) == SubSeq(rows, 1, Min(n, Len(rows)))

\* _hybrid_search, lines 26-34
vector_query(tenant_id, kb_id, top_k) ==
  LET rows == Scoped(tenant_id, kb_id)
  IN Limit(InOrder({<<c.id, vector_rank(rows, c)>> : c \in rows}), top_k)

\* _hybrid_search, lines 37-46
fulltext_query(tenant_id, kb_id, top_k) ==
  LET rows == {c \in Scoped(tenant_id, kb_id) : c.score > 0}
  IN Limit(InOrder({<<c.id, fulltext_rank(rows, c)>> : c \in rows}), top_k)

\* Fractions <<numerator, denominator>>.  The code adds floats; for the ranks
\* that occur here the float sums compare as the exact sums do.
AddFrac(a, b) == <<a[1] * b[2] + b[1] * a[2], a[2] * b[2]>>
Greater(a, b) == a[1] * b[2] > b[1] * a[2]

\* The loop with "=" in place of "+=".
RECURSIVE rrf_scores_overwriting(_, _)
rrf_scores_overwriting(ranked_chunks, dict) ==
  IF ranked_chunks = <<>> THEN dict
  ELSE LET id == Head(ranked_chunks)[1]
           rank == Head(ranked_chunks)[2]
           hit == {j \in 1..Len(dict) : dict[j].id = id}
       IN rrf_scores_overwriting(Tail(ranked_chunks),
            IF hit = {}
            THEN Append(dict, [id |-> id, score |-> <<1, k + rank>>])
            ELSE [j \in 1..Len(dict) |->
                    IF j \in hit
                    THEN [dict[j] EXCEPT !.score = <<1, k + rank>>]
                    ELSE dict[j]])

\* The loop collecting one entry per ranked row in place of one per id.
RECURSIVE rrf_scores_per_row(_, _)
rrf_scores_per_row(ranked_chunks, dict) ==
  IF ranked_chunks = <<>> THEN dict
  ELSE rrf_scores_per_row(Tail(ranked_chunks),
         Append(dict, [id |-> Head(ranked_chunks)[1],
                       score |-> <<1, k + Head(ranked_chunks)[2]>>]))

\* lines 54-57: rrf_scores[id] += 1 / (k + rank), a dict in insertion order
RECURSIVE rrf_scores(_, _)
rrf_scores(ranked_chunks, dict) ==
  IF ranked_chunks = <<>> THEN dict
  ELSE LET id == Head(ranked_chunks)[1]
           rank == Head(ranked_chunks)[2]
           hit == {j \in 1..Len(dict) : dict[j].id = id}
       IN rrf_scores(Tail(ranked_chunks),
            IF hit = {}
            THEN Append(dict, [id |-> id, score |-> AddFrac(<<0, 1>>, <<1, k + rank>>)])
            ELSE [j \in 1..Len(dict) |->
                    IF j \in hit
                    THEN [dict[j] EXCEPT !.score = AddFrac(@, <<1, k + rank>>)]
                    ELSE dict[j]])

\* line 60: sorted(rrf_scores.keys(), key=..., reverse=True), a stable sort
RECURSIVE sorted_chunk_ids(_)
sorted_chunk_ids(dict) ==
  IF dict = <<>> THEN <<>>
  ELSE LET first == CHOOSE j \in 1..Len(dict) :
                      /\ \A i \in 1..Len(dict) : ~Greater(dict[i].score, dict[j].score)
                      /\ \A i \in 1..(j - 1) : Greater(dict[j].score, dict[i].score)
       IN <<dict[first].id>> \o
          sorted_chunk_ids(SubSeq(dict, 1, first - 1) \o
                           SubSeq(dict, first + 1, Len(dict)))

\* RAGService._hybrid_search: the chunk ids of the RAGSource list it returns
_hybrid_search(tenant_id, kb_id, top_k) ==
  LET ranked_chunks == vector_query(tenant_id, kb_id, top_k)
                         \o fulltext_query(tenant_id, kb_id, top_k)
  IN Limit(sorted_chunk_ids(rrf_scores(ranked_chunks, <<>>)), top_k)

\* what can go wrong while a search runs: nothing, the query embedding
\* (embed_texts raises), the full-text subquery (to_tsquery rejects the text)
SearchEnvs == {"ok", "embedding_fails", "fulltext_fails"}

NoRequest == [op |-> Null]

SearchInit ==
  /\ kbs = KbTenant
  /\ docs = <<>>
  /\ tasks = <<>>
  /\ chunks \in SmallStores \cup {ExampleStore, BigStore}
  /\ response = [request |-> NoRequest, error |-> Null, sources |-> <<>>,
                 candidates |-> <<>>, sorted_indices |-> <<>>]

\* RAGService.search(tenant_id, kb_id, query_text, top_k) called with the
\* extra positional argument search_type (Null: called without it).  A query
\* leaves the tables as they are: a behaviour is one query on one store.
search(tenant_id, kb_id, top_k, search_type, env) ==
  /\ response.request = NoRequest
  /\ response' =
       [request |-> [op |-> "search", tenant_id |-> tenant_id, kb_id |-> kb_id,
                     top_k |-> top_k, search_type |-> search_type, env |-> env],
        error |-> IF search_type # Null THEN "TypeError"
                  ELSE IF env = "embedding_fails" THEN "EmbeddingError"
                  ELSE IF env = "fulltext_fails" THEN "ProgrammingError"
                  ELSE Null,
        sources |-> IF search_type = Null /\ env = "ok"
                    THEN _hybrid_search(tenant_id, kb_id, top_k) ELSE <<>>,
        candidates |-> <<>>, sorted_indices |-> <<>>]
  /\ UNCHANGED <<docs, chunks, tasks, kbs>>

SearchNext ==
  /\ response.request = NoRequest
  /\ \E tenant_id \in Tenants, kb_id \in KbIds, top_k \in TopKs,
        search_type \in SearchTypes \cup {Null}, env \in SearchEnvs :
       search(tenant_id, kb_id, top_k, search_type, env)

SearchSpec == SearchInit /\ [][SearchNext]_vars

\* ------------------------------------------------------------------ answer
\* Chunk rows of the stores answer and POST /rag/query run on (bound).
MaxCandidates == 2

\* scores the cross-encoder gives, by chunk
Relevances == {1, 2}
AnswerTopKs == {1, 2}

\* what can go wrong while answer runs: the failures of the search, the
\* import or load of the CrossEncoder, its predict call
AnswerEnvs == SearchEnvs \cup {"model_load_fails", "predict_fails"}

\* The index of the best score at every place.
score_and_sort_best(scores) ==
  [n \in 1..Len(scores) |->
     (CHOOSE i \in 1..Len(scores) :
        \A j \in 1..Len(scores) :
          scores[j] < scores[i] \/ (scores[j] = scores[i] /\ i <= j)) - 1]

\* The same sort with equal scores in reverse order.
score_and_sort_unstable(scores) ==
  [n \in 1..Len(scores) |->
     (CHOOSE i \in 1..Len(scores) :
        Cardinality({j \in 1..Len(scores) :
                       scores[j] > scores[i] \/ (scores[j] = scores[i] /\ j > i)})
          = n - 1) - 1]

\* RerankingService.score_and_sort, line 37: sorted(range(len(scores)),
\* key=lambda i: scores[i], reverse=True), indices from 0; scores is the
\* array predict returned, in the order of contents.
score_and_sort(scores) ==
  [n \in 1..Len(scores) |->
     (CHOOSE i \in 1..Len(scores) :
        Cardinality({j \in 1..Len(scores) :
                       scores[j] > scores[i] \/ (scores[j] = scores[i] /\ j < i)})
          = n - 1) - 1]

\* RAGService.rerank; predict maps a chunk to its score
rerank(sources, top_k, predict) ==
  IF sources = <<>> THEN <<>>
  ELSE LET sorted_indices ==
             score_and_sort([j \in 1..Len(sources) |-> predict[sources[j]]])
       IN Limit([j \in 1..Len(sources) |-> sources[sorted_indices[j] + 1]], top_k)

\* values of max_tokens a caller passes (128 is the default)
MaxTokens == {64, 128}

\* a call answer or score_and_sort makes, as the trace of calls records it
Call(fn, arg, max_tokens) == [fn |-> fn, arg |-> arg, max_tokens |-> max_tokens]

NoResponse ==
  [request |-> NoRequest, error |-> Null, sources |-> <<>>, candidates |-> <<>>,
   sorted_indices |-> <<>>, calls |-> <<>>, rows |-> {}]

\* A failed search that answers with no source.
search_outcome_swallowing(tenant_id, kb_id, top_k, env) ==
  IF env \in {"embedding_fails", "fulltext_fails"}
  THEN [error |-> Null, sources |-> <<>>]
  ELSE [error |-> Null, sources |-> _hybrid_search(tenant_id, kb_id, top_k)]

\* RAGService.search as answer sees it: the sources, or the exception
\* _hybrid_search lets through (the embedding of the query at line 23, the
\* statement of the two subqueries at line 51)
search_outcome(tenant_id, kb_id, top_k, env) ==
  IF env = "embedding_fails" THEN [error |-> "EmbeddingError", sources |-> <<>>]
  ELSE IF env = "fulltext_fails"
    THEN [error |-> "ProgrammingError", sources |-> <<>>]
  ELSE [error |-> Null, sources |-> _hybrid_search(tenant_id, kb_id, top_k)]

\* The width of the final answer.
retrieval_k_final(top_k) == top_k

\* answer, line 105: retrieval_k = top_k * 5
retrieval_k(top_k) == top_k * 5

\* The generation call with the default max_tokens.
generate_call_default(final_sources, max_tokens) ==
  Call("generate", final_sources, 128)

\* answer, lines 113-115: the prompt lists the contents of final_sources in
\* their order; self.llm.generate(prompt, max_tokens=max_tokens)
generate_call(final_sources, max_tokens) ==
  Call("generate", final_sources, max_tokens)

\* RAGService.answer(tenant_id, kb_id, query_text, top_k, max_tokens,
\* use_rerank) with the stub LLM provider
answer(tenant_id, kb_id, top_k, max_tokens, use_rerank, env, predict) ==
  LET request == [op |-> "answer", tenant_id |-> tenant_id, kb_id |-> kb_id,
                  top_k |-> top_k, max_tokens |-> max_tokens,
                  use_rerank |-> use_rerank, env |-> env, predict |-> predict]
      found == search_outcome(tenant_id, kb_id, retrieval_k(top_k), env)
      sources == found.sources
      searched == <<Call("search", retrieval_k(top_k), Null)>>
      raised == [NoResponse EXCEPT !.request = request, !.calls = searched]
      reranked == Append(searched, Call("rerank", sources, Null))
  IN /\ response.request = NoRequest
     /\ response' =
          IF found.error # Null THEN [raised EXCEPT !.error = found.error]
          ELSE IF use_rerank /\ env = "model_load_fails"
            THEN [raised EXCEPT !.error = "ImportError", !.candidates = sources]
          ELSE IF use_rerank /\ env = "predict_fails" /\ sources # <<>>
            THEN [raised EXCEPT !.error = "RuntimeError", !.candidates = sources,
                                !.calls = reranked]
          ELSE IF use_rerank
            THEN LET final_sources == rerank(sources, top_k, predict)
                 IN [raised EXCEPT
                       !.sources = final_sources,
                       !.candidates = sources,
                       !.sorted_indices =
                         IF sources = <<>> THEN <<>>
                         ELSE score_and_sort(
                                [j \in 1..Len(sources) |-> predict[sources[j]]]),
                       !.calls = Append(reranked,
                                        generate_call(final_sources, max_tokens))]
          ELSE LET final_sources == Limit(sources, top_k)
               IN [raised EXCEPT
                     !.sources = final_sources,
                     !.candidates = sources,
                     !.calls = Append(searched,
                                      generate_call(final_sources, max_tokens))]
     /\ UNCHANGED <<docs, chunks, tasks, kbs>>

\* what can go wrong while score_and_sort runs
RerankEnvs == {"ok", "model_load_fails", "predict_fails"}

\* RerankingService.score_and_sort(query, contents) called on its own; the
\* contents are those of the chunks 1..n, predict maps a chunk to its score
RerankingService_score_and_sort(n, env, predict) ==
  LET request == [op |-> "score_and_sort", contents |-> [j \in 1..n |-> j],
                  env |-> env, predict |-> predict]
      raised == [NoResponse EXCEPT !.request = request]
  IN /\ response.request = NoRequest
     /\ response' =
          IF n = 0 THEN raised
          ELSE IF env = "model_load_fails"
            THEN [raised EXCEPT !.error = "ImportError"]
          ELSE IF env = "predict_fails"
            THEN [raised EXCEPT !.error = "RuntimeError",
                                !.calls = <<Call("predict", n, Null)>>]
          ELSE [raised EXCEPT
                  !.sorted_indices = score_and_sort([j \in 1..n |-> predict[j]]),
                  !.calls = <<Call("predict", n, Null)>>]
     /\ UNCHANGED <<docs, chunks, tasks, kbs>>

\* _hybrid_search, line 63: self.db.query(Chunk).filter(
\* Chunk.id.in_(sorted_chunk_ids)).all()
fetch_by_ids(ids) == {c \in chunks : c.id \in ids}

\* the fetch of line 63 made for a tenant with a given list of ids
fetch_chunks(tenant_id, ids) ==
  /\ response.request = NoRequest
  /\ response' =
       [NoResponse EXCEPT
          !.request = [op |-> "fetch_by_ids", tenant_id |-> tenant_id,
                       ids |-> ids],
          !.rows = fetch_by_ids(ids)]
  /\ UNCHANGED <<docs, chunks, tasks, kbs>>

\* kb_id strings of a query: the knowledge bases, a UUID no knowledge base
\* has, a string that is no UUID
Uuids == KbIds \cup {"k3"}
QueryKbIds == Uuids \cup {"not-a-uuid"}

\* The lookup without the tenant filter.
kb_exists_any_tenant(tenant_id, kb_uuid) == kb_uuid \in DOMAIN kbs

\* rag_query, line 303: a KnowledgeBase row with this id and this tenant_id
kb_exists(tenant_id, kb_uuid) ==
  kb_uuid \in DOMAIN kbs /\ kbs[kb_uuid] = tenant_id

\* POST /rag/query: 400 when uuid.UUID(payload.kb_id) raises ValueError, 404
\* for a knowledge base that is not the tenant's; otherwise
\* rag_service.answer(...) is called with seven positional arguments, one
\* more than answer takes: TypeError, answered with 500 by the general
\* exception handler.
rag_query(tenant_id, kb_id, top_k, use_rerank, search_type) ==
  LET request == [op |-> "rag_query", tenant_id |-> tenant_id, kb_id |-> kb_id,
                  top_k |-> top_k, use_rerank |-> use_rerank,
                  search_type |-> search_type]
  IN /\ response.request = NoRequest
     /\ response' =
          [NoResponse EXCEPT
             !.request = request,
             !.error = IF kb_id \notin Uuids THEN "400"
                       ELSE IF ~kb_exists(tenant_id, kb_id) THEN "404"
                       ELSE "TypeError"]
     /\ UNCHANGED <<docs, chunks, tasks, kbs>>

QueryInit ==
  /\ kbs = KbTenant
  /\ docs = <<>>
  /\ tasks = <<>>
  /\ chunks \in StoresUpTo(MaxCandidates)
  /\ response = NoResponse

QueryNext ==
  \/ /\ response.request = NoRequest
     /\ \E kb_id \in KbIds, top_k \in AnswerTopKs, max_tokens \in MaxTokens,
           predict \in [1..MaxCandidates -> Relevances] :
          answer(KbTenant[kb_id], kb_id, top_k, max_tokens, TRUE, "ok", predict)
  \/ /\ response.request = NoRequest
     /\ \E kb_id \in KbIds, top_k \in AnswerTopKs, max_tokens \in MaxTokens,
           use_rerank \in BOOLEAN, env \in AnswerEnvs :
          /\ ~(use_rerank /\ env = "ok")
          /\ answer(KbTenant[kb_id], kb_id, top_k, max_tokens, use_rerank, env,
                    [id \in 1..MaxCandidates |-> 1])
  \/ /\ response.request = NoRequest
     /\ \E tenant_id \in Callers, kb_id \in QueryKbIds, top_k \in AnswerTopKs,
           use_rerank \in BOOLEAN, search_type \in SearchTypes :
          rag_query(tenant_id, kb_id, top_k, use_rerank, search_type)
  \/ /\ response.request = NoRequest
     /\ \E n \in 0..(MaxCandidates + 1), env \in RerankEnvs :
          \E predict \in [1..n -> Relevances] :
            RerankingService_score_and_sort(n, env, predict)
  \/ /\ response.request = NoRequest
     /\ \E tenant_id \in Tenants, ids \in SUBSET (1..MaxCandidates) :
          fetch_chunks(tenant_id, ids)

QuerySpec == QueryInit /\ [][QueryNext]_vars

\* ----------------------------------------------------------------- chunker
\* IngestionPipeline._chunk_content called on its own, with any content and
\* any parameters.  A word is a number: the word at place i of a flat text is
\* i, the word at place i of block b of a structured content is b * 100 + i,
\* and a chunk (a string of words joined by single spaces) is the sequence of
\* its words.

\* words of a flat text, blocks of a structured content, words of a block,
\* max_words and overlap (bounds)
MaxFlatWords == 5
MaxBlocks == 2
MaxBlockWords == 6
MaxWidth == 3

\* the chunks a call is followed for: more than any returning call appends
MaxEmitted == MaxBlocks * (2 * MaxBlockWords + 2)

BlockTypes == {"h1", "p"}

Word(b, i) == b * 100 + i
\* the last word of a heading inside f"{current_heading}: {block_content}"
Colon(w) == w + 50

Block(b, type, n) == [type |-> type, content |-> [i \in 1..n |-> Word(b, i)]]

RECURSIVE ContentsOf(_)
ContentsOf(n) ==
  IF n = 0 THEN {<<>>}
  ELSE ContentsOf(n - 1) \cup
       { Append(c, Block(n, type, len)) :
           c \in {d \in ContentsOf(n - 1) : Len(d) = n - 1},
           type \in BlockTypes, len \in 0..MaxBlockWords }

StructuredContents == ContentsOf(MaxBlocks)

\* the words a slice words[start:end] of a flat text holds
SliceWords(slice) == [j \in 1..(slice[2] - slice[1]) |-> slice[1] + j]

\* seq[s:] of Python: from place s on, counted from the end when s < 0
PySliceFrom(seq, s) ==
  IF s >= 0 THEN SubSeq(seq, s + 1, Len(seq))
  ELSE SubSeq(seq, Len(seq) + s + 1 - Min(0, Len(seq) + s), Len(seq))

\* f"{current_heading}: {block_content}".split() when current_heading is not
\* empty, block_content.split() otherwise
prefixed_block_words(current_heading, block_words) ==
  IF current_heading = <<>> THEN block_words
  ELSE [current_heading EXCEPT ![Len(current_heading)] = Colon(@)] \o block_words

NoFrame ==
  [request |-> NoRequest, pc |-> "idle", block |-> 0, chunks |-> <<>>,
   current_chunk_words |-> <<>>, current_heading |-> <<>>, result |-> <<>>]

ChunkInit ==
  /\ kbs = KbTenant
  /\ docs = <<>>
  /\ tasks = <<>>
  /\ chunks = {}
  /\ response = NoFrame

\* _chunk_content(content: str, max_words, overlap), lines 144-163
_chunk_content_str(W, mw, ov) ==
  /\ response.pc = "idle"
  /\ response' =
       [NoFrame EXCEPT
          !.request = [op |-> "_chunk_content", kind |-> "str",
                       content |-> [i \in 1..W |-> i],
                       max_words |-> mw, overlap |-> ov],
          !.pc = "done",
          !.result = LET slices == _chunk_content(W, mw, ov)
                     IN [n \in 1..Len(slices) |-> SliceWords(slices[n])]]
  /\ UNCHANGED <<docs, chunks, tasks, kbs>>

\* _chunk_content(content: list, max_words, overlap), lines 164-168: the
\* call, up to the for loop
_chunk_content_list(content, mw, ov) ==
  /\ response.pc = "idle"
  /\ response' =
       [NoFrame EXCEPT
          !.request = [op |-> "_chunk_content", kind |-> "list",
                       content |-> content, max_words |-> mw, overlap |-> ov],
          !.pc = "for", !.block = 1]
  /\ UNCHANGED <<docs, chunks, tasks, kbs>>

\* one round of "for block in content", lines 170-196, up to the while loop
_chunk_content_block ==
  /\ response.pc = "for"
  /\ response.block <= Len(response.request.content)
  /\ LET block == response.request.content[response.block]
         block_words == block.content
         cur == response.current_chunk_words
         mw == response.request.max_words
         flushed == IF cur # <<>> THEN Append(response.chunks, cur)
                    ELSE response.chunks
         prefixed == prefixed_block_words(response.current_heading, block_words)
     IN response' =
          IF block.type = "h1"
          THEN [response EXCEPT
                  !.current_heading = block_words,
                  !.chunks = IF Len(block_words) > 5
                             THEN Append(flushed, block_words) ELSE flushed,
                  !.current_chunk_words = IF Len(block_words) > 5
                                          THEN <<>> ELSE block_words,
                  !.block = @ + 1]
          ELSE IF Len(cur) + Len(prefixed) <= mw
          THEN [response EXCEPT !.current_chunk_words = cur \o prefixed,
                                !.block = @ + 1]
          ELSE [response EXCEPT
                  !.chunks = flushed,
                  !.current_chunk_words = prefixed,
                  !.pc = IF Len(prefixed) > mw THEN "while" ELSE "for",
                  !.block = @ + 1]
  /\ UNCHANGED <<docs, chunks, tasks, kbs>>

\* one round of "while len(current_chunk_words) > max_words", lines 199-201
_chunk_content_long_block ==
  /\ response.pc = "while"
  /\ Len(response.chunks) < MaxEmitted
  /\ LET cur == response.current_chunk_words
         mw == response.request.max_words
         ov == response.request.overlap
         rest == PySliceFrom(cur, mw - ov)
     IN response' =
          [response EXCEPT
             !.chunks = Append(@, SubSeq(cur, 1, mw)),
             !.current_chunk_words = rest,
             !.pc = IF Len(rest) > mw THEN "while" ELSE "for"]
  /\ UNCHANGED <<docs, chunks, tasks, kbs>>

\* lines 203-207: the last chunk, then the filter on chunks of 5 words or more
_chunk_content_return ==
  /\ response.pc = "for"
  /\ response.block > Len(response.request.content)
  /\ LET cur == response.current_chunk_words
         all == IF cur # <<>> THEN Append(response.chunks, cur)
                ELSE response.chunks
     IN response' =
          [response EXCEPT
             !.pc = "done", !.chunks = all,
             !.result = SelectSeq(all, LAMBDA chunk : Len(chunk) >= 5)]
  /\ UNCHANGED <<docs, chunks, tasks, kbs>>

ChunkRun ==
  \/ _chunk_content_block
  \/ _chunk_content_long_block
  \/ _chunk_content_return

ChunkNext ==
  \/ /\ response.pc = "idle"
     /\ \E W \in 0..MaxFlatWords, mw \in 1..MaxWidth, ov \in 0..MaxWidth :
          _chunk_content_str(W, mw, ov)
  \/ /\ response.pc = "idle"
     /\ \E content \in StructuredContents, mw \in 1..MaxWidth,
           ov \in 0..MaxWidth :
          _chunk_content_list(content, mw, ov)
  \/ ChunkRun

ChunkSpec == ChunkInit /\ [][ChunkNext]_vars

\* ------------------------------------------------------------ rate limiter
\* The rate limiter of the add_request_context middleware (backend/app/main.py)
\* on its own.  response holds the process's state: the clock time.time()
\* reads (whole seconds), the settings, _rate_limit_buckets, and a log of the
\* times at which each client's requests were passed on to call_next.

\* requests of a behaviour, the largest rate_limit_per_minute, the last
\* second of the clock (bounds)
MaxRequests == 4
MaxLimit == 2
MaxClock == 130

_rate_limit_window_seconds == 60

\* request.client.host
ClientIds == {"10.0.0.1", "10.0.0.2"}
\* seconds between two readings of the clock
ClockSteps == {30, 31}

RateInit ==
  /\ kbs = KbTenant
  /\ docs = <<>>
  /\ chunks = {}
  /\ tasks = <<>>
  /\ \E enabled \in BOOLEAN, limit \in 1..MaxLimit :
       response = [request |-> NoRequest, status_code |-> 0, requests |-> 0,
                   rate_limit_enabled |-> enabled,
                   rate_limit_per_minute |-> limit,
                   now |-> 0,
                   buckets |-> [c \in ClientIds |-> <<>>],
                   passed |-> [c \in ClientIds |-> <<>>]]

\* time passes
tick(dt) ==
  /\ response.now + dt <= MaxClock
  /\ response' = [response EXCEPT !.now = @ + dt]
  /\ UNCHANGED <<docs, chunks, tasks, kbs>>

\* lines 125-126: while bucket and bucket[0] < now - window: bucket.popleft()
RECURSIVE popleft_expired(_, _)
popleft_expired(bucket, now) ==
  IF bucket # <<>> /\ Head(bucket) < now - _rate_limit_window_seconds
  THEN popleft_expired(Tail(bucket), now)
  ELSE bucket

\* The middleware recording the request before it looks at the limit.
add_request_context_recording(client_id) ==
  /\ response.requests < MaxRequests
  /\ LET now == response.now
         bucket == Append(popleft_expired(response.buckets[client_id], now), now)
         request == [op |-> "http", client_id |-> client_id, now |-> now]
     IN response' =
          IF Len(bucket) > response.rate_limit_per_minute
          THEN [response EXCEPT !.request = request, !.requests = @ + 1,
                                !.status_code = 429,
                                !.buckets[client_id] = bucket]
          ELSE [response EXCEPT !.request = request, !.requests = @ + 1,
                                !.status_code = 200,
                                !.buckets[client_id] = bucket,
                                !.passed[client_id] = Append(@, now)]
  /\ UNCHANGED <<docs, chunks, tasks, kbs>>

\* add_request_context, lines 120-132: with the limiter off the request is
\* passed on; with it on, the client's bucket loses its expired entries, then
\* HTTPException(429) when it holds limit entries, otherwise the time of the
\* request is appended and the request is passed on (200: call_next ran).
add_request_context(client_id) ==
  /\ response.requests < MaxRequests
  /\ LET now == response.now
         bucket == popleft_expired(response.buckets[client_id], now)
         request == [op |-> "http", client_id |-> client_id, now |-> now]
     IN response' =
          IF ~response.rate_limit_enabled
          THEN [response EXCEPT !.request = request, !.requests = @ + 1,
                                !.status_code = 200,
                                !.passed[client_id] = Append(@, now)]
          ELSE IF Len(bucket) >= response.rate_limit_per_minute
          THEN [response EXCEPT !.request = request, !.requests = @ + 1,
                                !.status_code = 429,
                                !.buckets[client_id] = bucket]
          ELSE [response EXCEPT !.request = request, !.requests = @ + 1,
                                !.status_code = 200,
                                !.buckets[client_id] = Append(bucket, now),
                                !.passed[client_id] = Append(@, now)]
  /\ UNCHANGED <<docs, chunks, tasks, kbs>>

RateNext ==
  \/ \E dt \in ClockSteps : tick(dt)
  \/ \E client_id \in ClientIds : add_request_context(client_id)

RateSpec == RateInit /\ [][RateNext]_vars


\* ------------------------------------------------------------------ claims
ChunksOf(d) == {c \in chunks : c.document_id = d}
TasksOf(d) == {i \in TaskIds : tasks[i].document = d}
Ended(i) == tasks[i].pc = "done"
Succeeded(i) == Ended(i) /\ tasks[i].reason = Null
Failed(i) == Ended(i) /\ tasks[i].reason # Null
Attempts(d) == docs[d].doc_metadata.ingestion_attempts
\* the step is an ingest request that starts an ingestion of Document d
Reingests(d) == /\ Len(tasks') = Len(tasks) + 1
                /\ tasks'[Len(tasks')].document = d

\* C1: every status change of a Document is UPLOADED->PROCESSING,
\* PROCESSING->READY, PROCESSING->FAILED or FAILED->PROCESSING, or it is
\* READY->PROCESSING in the step of an ingest request for that Document; no
\* other step takes a Document out of READY.
C1_StatusTransitions ==
  [][\A d \in DocIds :
       docs'[d].status # docs[d].status =>
         \/ <<docs[d].status, docs'[d].status>> \in
              { <<"UPLOADED", "PROCESSING">>, <<"PROCESSING", "READY">>,
                <<"PROCESSING", "FAILED">>, <<"FAILED", "PROCESSING">> }
         \/ /\ docs[d].status = "READY"
            /\ docs'[d].status = "PROCESSING"
            /\ Reingests(d)]_vars

\* C2: a Document whose status is READY has at least one Chunk with a
\* non-null embedding.
C2_ReadyHasEmbeddedChunk ==
  \A d \in DocIds :
    docs[d].status = "READY" => \E c \in ChunksOf(d) : c.embedding # Null

\* a READY Document one of whose ingestion attempts failed
C2_Witness ==
  \E d \in DocIds :
    /\ docs[d].status = "READY"
    /\ \E i \in TasksOf(d) : Failed(i)
    /\ \E i \in TasksOf(d) : Succeeded(i)

C4_SuccessReplacesChunks ==
  [][\A i \in TaskIds :
       (tasks[i].pc = "store" /\ tasks'[i].pc = "done") =>
         LET d == tasks[i].document
             now == {c \in chunks' : c.document_id = d}
         IN /\ \A c \in now : c.id[1] = i
            /\ {c.content : c \in now} =
                 {<<tasks[i].file.filename, tasks[i].chunks[n]>> :
                    n \in 1..Len(tasks[i].chunks)}
            /\ Cardinality(now) = Len(tasks[i].chunks)
            /\ docs'[d].status = "READY"
            /\ docs'[d].doc_metadata.last_error = Null]_vars

\* a Document two of whose attempts succeeded: only the chunks of one remain
C4_Witness ==
  \E d \in DocIds : \E i, j \in TasksOf(d) :
    /\ i # j /\ Succeeded(i) /\ Succeeded(j)
    /\ docs[d].status = "READY"
    /\ ChunksOf(d) # {}

\* C5: two requests with one idempotency key, the first attempt failing and
\* the second, requested after that failure, succeeding, leave one Document
\* row for the key with ingestion_attempts = 2, status READY and one Chunk
\* per chunk string.
C5_IdempotentRetry ==
  \A d \in DocIds : \A i, j \in TasksOf(d) :
    ( /\ TasksOf(d) = {i, j} /\ i < j
      /\ docs[d].doc_metadata.idempotency_key # Null
      /\ Failed(i) /\ Succeeded(j) /\ tasks[j].after = {i} )
    => /\ Cardinality({e \in DocIds :
            /\ docs[e].tenant_id = docs[d].tenant_id
            /\ docs[e].kb_id = docs[d].kb_id
            /\ docs[e].doc_metadata.idempotency_key =
                 docs[d].doc_metadata.idempotency_key}) = 1
       /\ Attempts(d) = 2
       /\ docs[d].status = "READY"
       /\ Cardinality(ChunksOf(d)) = Len(tasks[j].chunks)

\* C6: an ingest request whose idempotency key finds a READY Document of the
\* tenant and knowledge base returns that Document and changes no Document,
\* no Chunk and schedules no task.
C6_ReadyIsNoOp ==
  [][\A tenant \in Tenants, kb_id \in KbIds, key \in Keys,
        metadata \in Keys \cup {Null}, file \in Files :
       ( /\ ingest_document(tenant, kb_id, key, metadata, file)
         /\ KbTenant[kb_id] = tenant
         /\ Existing(tenant, kb_id, key) # 0
         /\ docs[Existing(tenant, kb_id, key)].status = "READY" )
       => /\ UNCHANGED <<docs, chunks, tasks>>
          /\ response' = [status_code |-> 200,
                          document |-> Existing(tenant, kb_id, key),
                          status |-> "READY"]]_vars

\* a request has returned a READY Document
C6_Witness ==
  /\ response.status_code = 200
  /\ response.status = "READY"
  /\ response.document \in DocIds
  /\ docs[response.document].status = "READY"

\* C7: at most one Document row per (tenant, knowledge base, idempotency key).
C7_OneRowPerKey ==
  \A d, e \in DocIds :
    ( /\ docs[d].doc_metadata.idempotency_key # Null
      /\ docs[d].doc_metadata.idempotency_key = docs[e].doc_metadata.idempotency_key
      /\ docs[d].tenant_id = docs[e].tenant_id
      /\ docs[d].kb_id = docs[e].kb_id )
    => d = e

\* C8: every attempt counts: once the attempts started for a Document have
\* all ended, whatever their outcome, ingestion_attempts is their number.
C8_AttemptsCountEveryAttempt ==
  \A d \in DocIds :
    (\A i \in TasksOf(d) : Ended(i)) => Attempts(d) = Cardinality(TasksOf(d))

\* C9: ingestion_attempts of a Document never decreases.
C9_AttemptsNeverDecrease ==
  [][\A d \in DocIds :
       docs'[d].doc_metadata.ingestion_attempts >= Attempts(d)]_vars

\* C10: no two ingestion tasks of one Document are in flight at once.
C10_AttemptsSerialized ==
  \A i, j \in TaskIds :
    (i # j /\ InFlight(i) /\ InFlight(j)) => tasks[i].document # tasks[j].document

\* C11: whatever a reader of the committed rows sees, a Document that is
\* READY has a chunk set that is not empty and is the chunk set written by
\* exactly one of its ingestion attempts, never a mix of two attempts.
C11_ReaderSeesOneGeneration ==
  \A d \in DocIds :
    docs[d].status = "READY" =>
      /\ ChunksOf(d) # {}
      /\ \A c1, c2 \in ChunksOf(d) : c1.id[1] = c2.id[1]
      /\ \E i \in TasksOf(d) :
           /\ Succeeded(i)
           /\ {c.id : c \in ChunksOf(d)} =
                {<<i, n>> : n \in 1..Len(tasks[i].chunks)}

\* two attempts of one Document ran at the same time (the second was
\* scheduled while the first was in flight) and both stored their chunks
C11_Witness ==
  \E d \in DocIds : \E i, j \in TasksOf(d) :
    /\ i < j /\ i \notin tasks[j].after
    /\ Succeeded(i) /\ Succeeded(j)
    /\ docs[d].status = "READY"
    /\ ChunksOf(d) # {}

\* the messages of the exceptions a stage of the background task can raise
StageErrors(pc) ==
  CASE pc = "extract" -> {ErrUnsupported, ErrFetch}
    [] pc = "chunk" -> {ErrNoText}
    [] pc = "embed" -> {ErrEmbedding}
    [] pc = "store" -> {ErrStorage}
    [] OTHER -> {}

\* C12: an exception raised by extraction, chunking, embedding or storage of
\* a background task (upload or URL) is caught in the task: the task goes on
\* to one mark_failed call for its Document with the exception's message,
\* which records FAILED and last_error on that Document only, and then the
\* task has returned and does nothing more.
C12_ExceptionCaughtAndMarkedOnce ==
  [][\A i \in TaskIds :
       LET d == tasks[i].document
       IN /\ (tasks[i].reason = Null /\ tasks'[i].reason # Null)
               => /\ tasks'[i].reason \in StageErrors(tasks[i].pc)
                  /\ tasks'[i].pc = "mark_failed"
                  /\ UNCHANGED <<docs, chunks>>
          /\ (tasks[i].pc = "mark_failed" /\ tasks'[i] # tasks[i])
               => /\ tasks'[i].pc = "done"
                  /\ tasks'[i].reason = tasks[i].reason
                  /\ docs'[d].status = "FAILED"
                  /\ docs'[d].doc_metadata.last_error = tasks[i].reason
                  /\ \A e \in DocIds \ {d} : docs'[e] = docs[e]
                  /\ chunks' = chunks
          /\ tasks[i].pc = "done" => tasks'[i] = tasks[i]]_vars

\* a URL ingestion whose fetch failed and an ingestion whose transaction
\* failed have both ended, their Documents FAILED with those messages
C12_Witness ==
  \E i, j \in TaskIds :
    /\ Failed(i) /\ tasks[i].reason = ErrFetch
    /\ docs[tasks[i].document].doc_metadata.last_error = ErrFetch
    /\ Failed(j) /\ tasks[j].reason = ErrStorage
    /\ docs[tasks[j].document].status = "FAILED"
    /\ docs[tasks[j].document].doc_metadata.last_error = ErrStorage

\* C13: the step of an ingest request (upload or URL) that starts an
\* ingestion answers 200 with that Document in status PROCESSING, and in that
\* step the ingestion has only been scheduled: its task stands before
\* extraction with nothing extracted, chunked or failed, no Chunk row has
\* changed and no other task has moved.
C13_ResponseBeforeBackgroundWork ==
  [][Len(tasks') = Len(tasks) + 1 =>
       LET t == tasks'[Len(tasks')]
       IN /\ response'.status_code = 200
          /\ response'.document = t.document
          /\ response'.status = "PROCESSING"
          /\ t.obj.status = "PROCESSING"
          /\ t.pc = "extract" /\ t.words = 0 /\ t.chunks = <<>> /\ t.reason = Null
          /\ chunks' = chunks
          /\ \A i \in TaskIds : tasks'[i] = tasks[i]]_vars

\* a retry of a FAILED Document has been answered with PROCESSING while its
\* task has not started and the row still says FAILED
C13_Witness ==
  /\ tasks # <<>>
  /\ tasks[Len(tasks)].pc = "extract"
  /\ response.status_code = 200
  /\ response.document = tasks[Len(tasks)].document
  /\ response.status = "PROCESSING"
  /\ docs[response.document].status = "FAILED"

\* the request the response answers
Req == response.request
\* _hybrid_search ran to its end
Searched == Req.op = "search" /\ Req.search_type = Null /\ Req.env = "ok"
VectorRanked == vector_query(Req.tenant_id, Req.kb_id, Req.top_k)
LexicalRanked == fulltext_query(Req.tenant_id, Req.kb_id, Req.top_k)
Ids(rows) == {rows[j][1] : j \in 1..Len(rows)}
Elems(seq) == {seq[j] : j \in 1..Len(seq)}
\* the rank a source gives a chunk (0: the source does not rank it)
RankIn(rows, id) ==
  LET hit == {j \in 1..Len(rows) : rows[j][1] = id}
  IN IF hit = {} THEN 0 ELSE rows[CHOOSE j \in hit : TRUE][2]
Contribution(rows, id) ==
  IF RankIn(rows, id) = 0 THEN <<0, 1>> ELSE <<1, 60 + RankIn(rows, id)>>
FusedScore(id) ==
  AddFrac(Contribution(VectorRanked, id), Contribution(LexicalRanked, id))
BestRank(id) ==
  LET v == RankIn(VectorRanked, id)
      l == RankIn(LexicalRanked, id)
  IN IF v = 0 THEN l ELSE IF l = 0 THEN v ELSE Min(v, l)

\* C14: the sources of a hybrid search are the ranked chunks with the highest
\* fused scores, in descending order of fused score, the fused score of a
\* chunk being the sum over the sources that rank it of 1/(60 + rank); a
\* chunk ranked by both sources precedes a chunk ranked by one source only at
\* the same or a worse rank; vector order A, B, C with full-text order
\* C, A, B gives A, C, B.
C14_HybridOrderedByFusedScore ==
  Searched =>
    LET src == response.sources
        ranked == Ids(VectorRanked) \cup Ids(LexicalRanked)
    IN /\ Len(src) = Min(Req.top_k, Cardinality(ranked))
       /\ Elems(src) \subseteq ranked
       /\ \A i, j \in 1..Len(src) :
            i < j => /\ src[i] # src[j]
                     /\ ~Greater(FusedScore(src[j]), FusedScore(src[i]))
       /\ \A c \in ranked \ Elems(src) : \A i \in 1..Len(src) :
            ~Greater(FusedScore(c), FusedScore(src[i]))
       /\ \A i, j \in 1..Len(src) :
            ( /\ RankIn(VectorRanked, src[i]) # 0
              /\ RankIn(LexicalRanked, src[i]) # 0
              /\ (RankIn(VectorRanked, src[j]) = 0
                    \/ RankIn(LexicalRanked, src[j]) = 0)
              /\ BestRank(src[j]) >= BestRank(src[i]) ) => i < j
       /\ (chunks = ExampleStore /\ Req.tenant_id = "t1" /\ Req.kb_id = "k1"
             /\ Req.top_k = 62) => src = <<1, 3, 2>>

\* the search of the example has answered A, C, B
C14_Witness ==
  /\ Searched
  /\ chunks = ExampleStore
  /\ VectorRanked = << <<1, 1>>, <<2, 2>>, <<3, 3>> >>
  /\ LexicalRanked = << <<3, 1>>, <<1, 2>>, <<2, 3>> >>
  /\ response.sources = <<1, 3, 2>>

\* the place of a chunk in the rows the two sources returned, vector rows
\* first
InputOrder(id) ==
  LET rows == VectorRanked \o LexicalRanked
  IN CHOOSE j \in 1..Len(rows) :
       rows[j][1] = id /\ \A i \in 1..(j - 1) : rows[i][1] # id

EqualScore(a, b) == ~Greater(FusedScore(a), FusedScore(b))
                      /\ ~Greater(FusedScore(b), FusedScore(a))

\* C15: of two sources of a hybrid search with exactly equal fused scores,
\* the one whose best rank in any source is lower comes first, and with equal
\* best ranks the one that came first in the input rows comes first.
C15_TieBreakByBestRank ==
  Searched =>
    LET src == response.sources
    IN \A i, j \in 1..Len(src) :
         (i < j /\ EqualScore(src[i], src[j])) =>
           \/ BestRank(src[i]) < BestRank(src[j])
           \/ /\ BestRank(src[i]) = BestRank(src[j])
              /\ InputOrder(src[i]) < InputOrder(src[j])

RankedIds(rows) == [j \in 1..Len(rows) |-> rows[j][1]]

\* C16: a query through POST /rag/query (no reranking) answers with the
\* ranked list its search_type selects, truncated to top_k: the vector order
\* for vector, the full-text order for full_text, the RRF fusion of both for
\* hybrid.
C16_ModeSelectsRankedInput ==
  ( /\ Req.op = "rag_query"
    /\ kb_exists(Req.tenant_id, Req.kb_id)
    /\ ~Req.use_rerank )
  => /\ response.error = Null
     /\ response.sources =
          Limit(CASE Req.search_type = "vector" -> RankedIds(VectorRanked)
                  [] Req.search_type = "full_text" -> RankedIds(LexicalRanked)
                  [] OTHER -> _hybrid_search(Req.tenant_id, Req.kb_id, Req.top_k),
                Req.top_k)

\* C17: a search with mode vector whose full-text branch fails raises nothing
\* and returns the vector order; a search with mode full_text whose query
\* embedding fails raises nothing and returns the full-text order.
C17_UnusedBranchFailureIgnored ==
  /\ ( Req.op = "search" /\ Req.search_type = "vector"
         /\ Req.env = "fulltext_fails" )
       => /\ response.error = Null
          /\ response.sources = Limit(RankedIds(VectorRanked), Req.top_k)
  /\ ( Req.op = "search" /\ Req.search_type = "full_text"
         /\ Req.env = "embedding_fails" )
       => /\ response.error = Null
          /\ response.sources = Limit(RankedIds(LexicalRanked), Req.top_k)

\* C18: answer with reranking requested, when the relevance model cannot be
\* loaded or its scoring call fails, still succeeds and returns the fusion
\* order truncated to top_k.
C18_RerankFailureFallsBack ==
  ( /\ Req.op = "answer" /\ Req.use_rerank
    /\ Req.env \in {"model_load_fails", "predict_fails"} )
  => /\ response.error = Null
     /\ response.sources =
          Limit(_hybrid_search(Req.tenant_id, Req.kb_id, Req.top_k * 5), Req.top_k)

\* C19: when answer reranks, score_and_sort returns every index 0..n-1 of the
\* n fused candidates exactly once, and the sources are the candidates at the
\* first min(top_k, n) of those indices: each source is a fused candidate and
\* none appears twice.
C19_RerankIsReordering ==
  (Req.op = "answer" /\ Req.use_rerank /\ Req.env = "ok") =>
    LET cand == response.candidates
        idx == response.sorted_indices
        src == response.sources
        n == Len(cand)
    IN /\ cand = _hybrid_search(Req.tenant_id, Req.kb_id, Req.top_k * 5)
       /\ Len(idx) = n
       /\ Elems(idx) = 0..(n - 1)
       /\ Len(src) = Min(Req.top_k, n)
       /\ \A j \in 1..Len(src) : src[j] = cand[idx[j] + 1]
       /\ Elems(src) \subseteq Elems(cand)
       /\ \A i, j \in 1..Len(src) : i # j => src[i] # src[j]

\* reranking has put another candidate first and truncated the list
C19_Witness ==
  /\ Req.op = "answer" /\ Req.use_rerank /\ Req.env = "ok"
  /\ Len(response.candidates) > Req.top_k
  /\ response.sources # <<>>
  /\ response.sources[1] # response.candidates[1]

ChunkById(id) == CHOOSE c \in chunks : c.id = id

\* C20: every source a search scoped to a tenant and a knowledge base returns
\* is a chunk of that tenant and that knowledge base, whatever chunks the
\* other tenant holds.
C20_SourcesStayInScope ==
  Req.op = "search" =>
    \A j \in 1..Len(response.sources) :
      /\ \E c \in chunks : c.id = response.sources[j]
      /\ ChunkById(response.sources[j]).tenant_id = Req.tenant_id
      /\ ChunkById(response.sources[j]).kb_id = Req.kb_id

\* a search has returned sources although a chunk of the other tenant is
\* nearer to the query and scores higher than each of them
C20_Witness ==
  /\ Searched
  /\ response.sources # <<>>
  /\ \E c \in chunks :
       /\ c.tenant_id # Req.tenant_id
       /\ \A j \in 1..Len(response.sources) :
            /\ c.distance < ChunkById(response.sources[j]).distance
            /\ c.score > ChunkById(response.sources[j]).score

Chunked == Req.op = "_chunk_content" /\ response.pc = "done"
ChunkedFlat == Chunked /\ Req.kind = "str"
FirstWords(chunk, n) == SubSeq(chunk, 1, Min(n, Len(chunk)))
LastWords(chunk, n) == SubSeq(chunk, Len(chunk) - Min(n, Len(chunk)) + 1, Len(chunk))

\* C21: for a flat text chunked with max_words > overlap, the last overlap
\* words of every chunk but the final one are the first overlap words of the
\* chunk after it.
C21_AdjacentChunksOverlap ==
  (ChunkedFlat /\ Req.max_words > Req.overlap) =>
    \A n \in 1..(Len(response.result) - 1) :
      LastWords(response.result[n], Req.overlap)
        = FirstWords(response.result[n + 1], Req.overlap)

\* C22: a flat text of at least one word and fewer than max_words words,
\* chunked with overlap < max_words, gives exactly one chunk.
C22_ShortTextOneChunk ==
  ( /\ ChunkedFlat
    /\ Len(Req.content) > 0
    /\ Len(Req.content) < Req.max_words
    /\ Req.overlap < Req.max_words )
  => Len(response.result) = 1

\* C29: every chunk _chunk_content returns, for a flat text and for a list of
\* blocks alike, has at most max_words words.
C29_ChunksAtMostMaxWords ==
  Chunked =>
    \A n \in 1..Len(response.result) :
      Len(response.result[n]) <= Req.max_words

\* A call followed up to MaxEmitted chunks is one whose while loop has
\* stopped shortening current_chunk_words: it never leaves the loop.
EndlessAtMaxEmitted ==
  (response.pc = "while" /\ Len(response.chunks) = MaxEmitted) =>
    PySliceFrom(response.current_chunk_words,
                Req.max_words - Req.overlap) = response.current_chunk_words

\* C30: every call of _chunk_content, with max_words >= 1 and overlap >= 0,
\* returns: each round of the for loop moves on to the next block, each round
\* of the while loop that stays in the loop leaves fewer words to chunk; and
\* a call with an empty text or an empty list returns no chunk.
C30_ChunkerTerminates ==
  [][ /\ (response.pc = "for" /\ response'.pc # "done")
           => response'.block = response.block + 1
      /\ (response.pc = "while" /\ response'.pc = "while")
           => Len(response'.current_chunk_words)
                < Len(response.current_chunk_words)
      /\ (response'.pc = "done" /\ response'.request.content = <<>>)
           => response'.result = <<>> ]_vars

CallsTo(fn) == {j \in 1..Len(response.calls) : response.calls[j].fn = fn}
RetrievalFails == Req.env \in {"embedding_fails", "fulltext_fails"}
OwnKb(tenant_id, kb_id) == kb_id \in KbIds /\ KbTenant[kb_id] = tenant_id

\* C23: POST /rag/query with a kb_id that is no UUID answers 400, with the
\* UUID of no knowledge base of the caller's tenant it answers 404, and in
\* both cases nothing is searched, reranked or generated.
C23_BadKnowledgeBaseRejected ==
  (Req.op = "rag_query" /\ ~OwnKb(Req.tenant_id, Req.kb_id)) =>
    /\ response.error = IF Req.kb_id = "not-a-uuid" THEN "400" ELSE "404"
    /\ response.calls = <<>>
    /\ response.sources = <<>>

\* a query for the other tenant's knowledge base has been answered 404
C23_Witness ==
  /\ Req.op = "rag_query"
  /\ Req.kb_id \in KbIds /\ KbTenant[Req.kb_id] # Req.tenant_id
  /\ response.error = "404"

\* C24: answer ends in an error whenever the embedding of the query or the
\* statement of the two subqueries fails, and it succeeds with no source only
\* when the tenant's knowledge base holds no chunk.
C24_RetrievalFailureIsAnError ==
  Req.op = "answer" =>
    /\ RetrievalFails => response.error # Null
    /\ (response.error = Null /\ response.sources = <<>>)
         => Scoped(Req.tenant_id, Req.kb_id) = {}

\* the retrieval of an answer over a knowledge base with chunks has failed
C24_Witness ==
  /\ Req.op = "answer" /\ RetrievalFails
  /\ Scoped(Req.tenant_id, Req.kb_id) # {}
  /\ response.error # Null /\ response.sources = <<>>

\* C25: answer calls search exactly once, with top_k * 5, whether use_rerank
\* is true or false, and returns at most top_k sources.
C25_SearchOnceFiveTimesTopK ==
  Req.op = "answer" =>
    /\ Cardinality(CallsTo("search")) = 1
    /\ response.calls[1].fn = "search"
    /\ response.calls[1].arg = 5 * Req.top_k
    /\ Len(response.sources) <= Req.top_k

\* an answer without reranking has returned top_k sources out of more
\* candidates
C25_Witness ==
  /\ Req.op = "answer" /\ ~Req.use_rerank /\ response.error = Null
  /\ Len(response.candidates) > Req.top_k
  /\ Len(response.sources) = Req.top_k

\* C26: with use_rerank false answer neither loads the reranker nor calls
\* rerank and returns the first top_k search results in search order; every
\* answer that returns has called generate exactly once, as its last call,
\* with the returned sources in their order and the caller's max_tokens.
C26_NoRerankThenOneGeneration ==
  Req.op = "answer" =>
    /\ ~Req.use_rerank =>
         /\ CallsTo("rerank") = {}
         /\ ~RetrievalFails =>
              /\ response.error = Null
              /\ response.sources =
                   Limit(_hybrid_search(Req.tenant_id, Req.kb_id, 5 * Req.top_k),
                         Req.top_k)
    /\ response.error = Null =>
         /\ Cardinality(CallsTo("generate")) = 1
         /\ LET last == response.calls[Len(response.calls)]
            IN /\ last.fn = "generate"
               /\ last.arg = response.sources
               /\ last.max_tokens = Req.max_tokens

\* an answer without reranking has returned sources and passed on a
\* max_tokens other than the default although the reranker cannot be loaded
C26_Witness ==
  /\ Req.op = "answer" /\ ~Req.use_rerank /\ Req.env = "model_load_fails"
  /\ Req.max_tokens # 128
  /\ response.error = Null /\ response.sources # <<>>

\* C27: score_and_sort returns every index once, ordered by descending score,
\* indices of equal scores in ascending order; for no contents it returns
\* the empty list and neither loads nor calls the model.
C27_ScoreAndSortStableDescending ==
  Req.op = "score_and_sort" =>
    LET idx == response.sorted_indices
        n == Len(Req.contents)
    IN /\ n = 0 => /\ response.error = Null
                   /\ idx = <<>>
                   /\ response.calls = <<>>
       /\ (n > 0 /\ response.error = Null) =>
            /\ Len(idx) = n
            /\ Elems(idx) = 0..(n - 1)
            /\ \A a, b \in 1..n :
                 a < b =>
                   \/ Req.predict[idx[a] + 1] > Req.predict[idx[b] + 1]
                   \/ /\ Req.predict[idx[a] + 1] = Req.predict[idx[b] + 1]
                      /\ idx[a] < idx[b]

\* the best score was in the middle and the two others were equal
C27_Witness ==
  /\ Req.op = "score_and_sort" /\ response.error = Null
  /\ Len(Req.contents) = 3
  /\ Req.predict[1] = Req.predict[3]
  /\ response.sorted_indices = <<1, 0, 2>>

\* C28: the chunks fetched by a list of ids for a tenant all belong to that
\* tenant, whatever ids the list holds.
C28_FetchByIdsStaysInTenant ==
  Req.op = "fetch_by_ids" =>
    \A c \in response.rows : c.tenant_id = Req.tenant_id

\* C31: in a flat text chunked with max_words > overlap, once a chunk has been
\* emitted, a tail of fewer than overlap words is not emitted: no chunk but
\* the first has fewer than overlap words.
C31_NoShortTailChunk ==
  (ChunkedFlat /\ Req.max_words > Req.overlap) =>
    \A n \in 2..Len(response.result) :
      Len(response.result[n]) >= Req.overlap

ChunkedList == Chunked /\ Req.kind = "list"
Headings == {b \in 1..Len(Req.content) : Req.content[b].type = "h1"}

\* C32: in a structured content every returned chunk has at least 5 words, a
\* heading of more than 5 words is a chunk of its own, a heading of at most 5
\* words is never a chunk of its own, and a heading ends the pending
\* accumulation: after it the pending words are the words of a short
\* heading, or none.
C32_HeadingsAndShortChunks ==
  /\ ChunkedList =>
       /\ \A n \in 1..Len(response.result) : Len(response.result[n]) >= 5
       /\ \A b \in Headings :
            IF Len(Req.content[b].content) > 5
            THEN Req.content[b].content \in Elems(response.result)
            ELSE Req.content[b].content \notin Elems(response.result)
  /\ ( /\ Req.op = "_chunk_content" /\ response.pc = "for"
       /\ response.block - 1 \in Headings )
     => response.current_chunk_words =
          IF Len(Req.content[response.block - 1].content) > 5 THEN <<>>
          ELSE Req.content[response.block - 1].content

Ranks(rows) == [j \in 1..Len(rows) |-> rows[j][2]]
Matching == {c \in Scoped(Req.tenant_id, Req.kb_id) : c.score > 0}

\* C33: each branch of _hybrid_search with width top_k hands to the fusion
\* the top_k best-ranked matching chunks of the tenant and knowledge base,
\* best first: its ranks are 1, 2, .. up to min(top_k, number of matching
\* chunks), and no chunk left out ranks better than a chunk handed over.
C33_BranchContributesBestRanks ==
  Searched =>
    /\ Ranks(VectorRanked) =
         [j \in 1..Min(Req.top_k,
                       Cardinality(Scoped(Req.tenant_id, Req.kb_id))) |-> j]
    /\ Ranks(LexicalRanked) =
         [j \in 1..Min(Req.top_k, Cardinality(Matching)) |-> j]
    /\ \A c \in Scoped(Req.tenant_id, Req.kb_id) :
         c.id \notin Ids(VectorRanked) =>
           \A j \in 1..Len(VectorRanked) :
             vector_rank(Scoped(Req.tenant_id, Req.kb_id), c) >= VectorRanked[j][2]
    /\ \A c \in Matching :
         c.id \notin Ids(LexicalRanked) =>
           \A j \in 1..Len(LexicalRanked) :
             fulltext_rank(Matching, c) >= LexicalRanked[j][2]

\* C38: the list _hybrid_search returns holds every chunk id at most once, a
\* chunk ranked by both branches included, and has at most top_k entries.
C38_SourcesUniqueAndAtMostTopK ==
  Searched =>
    /\ Len(response.sources) <= Req.top_k
    /\ \A i, j \in 1..Len(response.sources) :
         response.sources[i] = response.sources[j] => i = j

\* a chunk ranked by both branches is returned once, in a list cut to top_k
\* because the two branches ranked more than top_k chunks between them
C38_Witness ==
  /\ Searched
  /\ \E id \in Ids(VectorRanked) \cap Ids(LexicalRanked) :
       Cardinality({j \in 1..Len(response.sources) : response.sources[j] = id}) = 1
  /\ Cardinality(Ids(VectorRanked) \cup Ids(LexicalRanked)) > Req.top_k
  /\ Len(response.sources) = Req.top_k

\* C36: after any interleaving of ingest requests, background tasks and
\* knowledge base deletions, every stored Chunk refers to a Document that
\* exists and to a knowledge base that exists, and carries the tenant and
\* knowledge base of its Document.
C36_ChunksReferToExistingRows ==
  \A c \in chunks :
    /\ c.document_id \in DocIds
    /\ docs[c.document_id] # NoDocument
    /\ c.kb_id \in DOMAIN kbs
    /\ c.tenant_id = docs[c.document_id].tenant_id
    /\ c.kb_id = docs[c.document_id].kb_id
    /\ c.tenant_id = kbs[c.kb_id]

\* a knowledge base was deleted while a task of one of its Documents was
\* about to store: the task has ended on the failed transaction, with
\* nothing written, and the Chunks of another knowledge base are still there
C36_Witness ==
  /\ chunks # {}
  /\ \E i \in TaskIds :
       /\ docs[tasks[i].document] = NoDocument
       /\ tasks[i].obj.kb_id \notin DOMAIN kbs
       /\ Failed(i) /\ tasks[i].reason = ErrStorage
       /\ tasks[i].chunks # <<>>

\* C37: an idempotency key counts within one tenant and one knowledge base:
\* an ingest request, whatever its key, returns and hands to a background
\* task only a Document of the caller's tenant and of the knowledge base it
\* names, and changes no row of documents.
C37_IdempotencyKeyScoped ==
  [][\A tenant \in Tenants, kb_id \in DOMAIN ThreeKbs, key \in Keys,
        file \in TenancyFiles :
       ingest_document(tenant, kb_id, key, Null, file) =>
         /\ response'.document # 0 =>
              /\ docs'[response'.document].tenant_id = tenant
              /\ docs'[response'.document].kb_id = kb_id
         /\ \A d \in DocIds : docs'[d] = docs[d]
         /\ tasks' # tasks =>
              LET t == tasks'[Len(tasks')]
              IN /\ t.document = response'.document
                 /\ t.obj.tenant_id = tenant
                 /\ t.obj.kb_id = kb_id
                 /\ \A i \in TaskIds : tasks'[i] = tasks[i]]_vars

\* a key whose Document is READY in one knowledge base of a tenant was sent
\* again for another knowledge base of that tenant and for the other tenant:
\* the last request got a Document of its own
C37_Witness ==
  \E d, e \in DocIds :
    /\ d < e
    /\ docs[d].status = "READY"
    /\ docs[e] # NoDocument
    /\ docs[e].doc_metadata.idempotency_key = docs[d].doc_metadata.idempotency_key
    /\ docs[e].tenant_id = docs[d].tenant_id
    /\ docs[e].kb_id # docs[d].kb_id
    /\ response.status_code = 200
    /\ response.document = e
    /\ response.status = "PROCESSING"

\* C35: in every state a Document that is READY has no last_error and a
\* Document that is FAILED has one.
C35_StatusAndLastErrorAgree ==
  \A d \in DocIds :
    /\ docs[d].status = "READY" => docs[d].doc_metadata.last_error = Null
    /\ docs[d].status = "FAILED" => docs[d].doc_metadata.last_error # Null

\* a Document that was FAILED with the message of its first attempt is READY
\* without last_error after its second
C35_Witness ==
  \E d \in DocIds :
    /\ docs[d].status = "READY"
    /\ docs[d].doc_metadata.last_error = Null
    /\ \E i, j \in TasksOf(d) :
         /\ Failed(i) /\ i \in tasks[j].after
         /\ tasks[j].obj.doc_metadata.last_error = Null
         /\ Succeeded(j)

Settled(d) == docs[d] = NoDocument \/ docs[d].status \in {"READY", "FAILED"}

PassedWithin(client_id, t) ==
  {j \in 1..Len(response.passed[client_id]) :
     /\ response.passed[client_id][j] >= t
     /\ response.passed[client_id][j] <= t + _rate_limit_window_seconds}

\* C39: with the limiter on and limit L, no 60 seconds see more than L
\* requests of one client passed on; a request answered 429 adds nothing to
\* the client's bucket and is not passed on; and a request changes the bucket
\* of no other client.
C39_RateLimitPerClient ==
  /\ [](response.rate_limit_enabled =>
          \A c \in ClientIds : \A t \in 0..MaxClock :
            Cardinality(PassedWithin(c, t)) <= response.rate_limit_per_minute)
  /\ [][\A c \in ClientIds :
          (response'.requests = response.requests + 1
             /\ response'.request.client_id = c)
          => /\ \A other \in ClientIds \ {c} :
                  /\ response'.buckets[other] = response.buckets[other]
                  /\ response'.passed[other] = response.passed[other]
             /\ response'.status_code = 429 =>
                  /\ response'.passed[c] = response.passed[c]
                  /\ response'.buckets[c] =
                       popleft_expired(response.buckets[c], response.now)
                  /\ Len(response'.buckets[c]) <= Len(response.buckets[c])]_vars

\* a client at its limit of 1 has been answered 429 exactly 60 seconds after
\* the request that filled its bucket: nothing was added to its bucket, and
\* the other client's bucket stands as it was
C39_Witness ==
  \E c \in ClientIds : \E other \in ClientIds \ {c} :
    /\ response.rate_limit_enabled
    /\ response.rate_limit_per_minute = 1
    /\ response.request = [op |-> "http", client_id |-> c, now |-> 60]
    /\ response.status_code = 429
    /\ response.passed[c] = <<0>>
    /\ response.buckets[c] = <<0>>
    /\ response.buckets[other] = <<30>>

====
